---- MODULE Spec2Model ----
(***************************************************************************)
(* Model of solara/components/markdown.py: the Markdown and MarkdownIt     *)
(* components, the fenced-block handler _highlight, the live-code executor *)
(* _run_solara, the ExceptionGuard error boundary and the template / key   *)
(* wrapper.                                                                *)
(*                                                                         *)
(* A document (md_text after textwrap.dedent and tokenisation by the       *)
(* Markdown engine) is a sequence of fenced blocks [lang, src].  HTML is a *)
(* sequence of tokens; every token is a tuple whose first element is a     *)
(* tag, and a literal character c of a string is the token <<"chr", c>>.   *)
(***************************************************************************)
EXTENDS Integers, Sequences, FiniteSets, TLC

\* ---- state -------------------------------------------------------------
VARIABLES
    kind,        \* component instance -> "Markdown" | "MarkdownIt"
    md_text,     \* component instance -> its document
    passesLeft,  \* component instance -> render passes it may still start
    memo,        \* component instance -> its use_memo slot
    cur,         \* component instance -> the render pass in progress
    nextId,      \* the next widget model id the widget library hands out
    containers,  \* ids of the boxes created and mounted by solara.render
    guard,       \* id -> state of the ExceptionGuard mounted in that box
    shown,       \* component instance -> number of the pass it displays
    leaked,      \* names bound by the fence programs executed so far
    execs,       \* the calls of _run_solara that returned or raised
    passes       \* the render passes that returned or raised

vars == <<kind, md_text, passesLeft, memo, cur, nextId, containers, guard,
          shown, leaked, execs, passes>>

\* ---- bounds ------------------------------------------------------------
MaxFences == 2
MaxPasses == 2

Comps == {1, 2}

\* ---- inputs ------------------------------------------------------------
\* Bodies of live fences, each a complete program: one defines app, one
\* defines Page (a component callable without arguments), one defines
\* neither, one raises an Exception in exec, one raises a BaseException.
SolaraSources ==
    {"import solara; app = solara.Column()", "import solara; Page = solara.Column",
     "x = 1", "1/0", "raise SystemExit"}

Fences ==
    [lang : {"solara"}, src : SolaraSources]
        \cup {[lang |-> "python", src |-> "x = 1"],
              [lang |-> "brainfuck9000", src |-> "++"]}

Docs == UNION {[1..k -> Fences] : k \in 1..MaxFences}

\* documents of live fences whose programs run to their end
LiveDocs ==
    UNION {[1..k -> [lang : {"solara"},
                     src : {"import solara; app = solara.Column()",
                            "import solara; Page = solara.Column", "x = 1"}]] :
              k \in 1..MaxFences}

Highlights == {<< >>, <<1, 2>>, <<1, 3>>}

StyleInputs == {"None", "color: red"}

\* ---- strings -----------------------------------------------------------
Chars(s) == [i \in 1..Len(s) |-> <<"chr", s[i]>>]

\* str(unsafe_solara_execute)
StrBool(b) == IF b THEN Chars(<<"T", "r", "u", "e">>)
                   ELSE Chars(<<"F", "a", "l", "s", "e">>)

RECURSIVE ReprItems(_)
ReprItems(h) ==
    IF Len(h) = 0 THEN << >>
    ELSE IF Len(h) = 1 THEN <<ToString(h[1])>>
    ELSE <<ToString(h[1]), ",", " ">> \o ReprItems(Tail(h))

\* repr(highlight) of a list of ints
ReprList(h) == Chars(<<"[">> \o ReprItems(h) \o <<"]">>)

\* hashlib.sha256(...).hexdigest(): the digest is taken as collision free,
\* so a key is determined by, and determines, the hashed string.
sha256(s) == <<"sha256", s>>

RECURSIVE Flatten(_)
Flatten(ss) == IF Len(ss) = 0 THEN << >> ELSE Head(ss) \o Flatten(Tail(ss))

\* ---- constants of the module -------------------------------------------
html_no_execute_enabled == <<"html_no_execute_enabled">>

\* ---- the executed programs (compile / exec of _run_solara) -------------
\* the names the program has bound when exec returns or raises
Binds(src) ==
    CASE src = "import solara; app = solara.Column()" -> {"solara", "app"}
      [] src = "import solara; Page = solara.Column" -> {"solara", "Page"}
      [] src = "x = 1" -> {"x"}
      [] OTHER -> {}

\* exec(ast, local_scope): the dict is the program's globals; exec adds
\* "__builtins__" to it and the program its bindings
Exec(local_scope, src) == local_scope \cup {"__builtins__"} \cup Binds(src)

ExecFault(src) ==
    CASE src = "1/0" -> "ZeroDivisionError"
      [] src = "raise SystemExit" -> "SystemExit"
      [] OTHER -> "none"

\* `except Exception` does not catch SystemExit (a BaseException)
IsException(e) == e # "SystemExit"

\* local_scope: Dict[Any, Any] = {}
LeakyLocalScope(bound) == bound
NewLocalScope(bound) == {}

\* box = v.Html(tag="div"): a new widget, whose _model_id is new
SharedBox(next) == 1
NewBox(next) == next

\* the f-string returned by _run_solara
WidgetHtml(widget_id) == <<"jupyter-widget", widget_id>>

\* _highlight line 131: return html + html_widget
HighlightWithWidget(html, html_widget) == html \o <<html_widget>>

\* ---- pygments ----------------------------------------------------------
KnownLexers == {"python"}

\* get_lexer_by_name(language) raises ClassNotFound for an unknown name
LexerFound(language) == language \in KnownLexers

\* pygments.highlight(src, lexer, formatter)
PygmentsHighlight(src, language) == <<"highlight", language, src>>

\* ---- _highlight, up to the call of _run_solara -------------------------
\* what _highlight does with (src, language, unsafe_solara_execute):
\*   "raise"  get_lexer_by_name raised
\*   "run"    _run_solara(src) is called, its result appended to html
\*   "return" html is returned
_highlight(src, language, unsafe_solara_execute) ==
    LET run_src_with_solara == language = "solara"
        lang == IF run_src_with_solara THEN "python" ELSE language
        html == <<PygmentsHighlight(src, lang)>>
    IN  IF ~LexerFound(lang)
        THEN [do |-> "raise", html |-> << >>]
        ELSE IF run_src_with_solara
             THEN IF unsafe_solara_execute
                  THEN [do |-> "run", html |-> html]
                  ELSE [do |-> "return", html |-> html \o <<html_no_execute_enabled>>]
             ELSE [do |-> "return", html |-> html]

\* ---- template and key --------------------------------------------------
\* solara.util._flatten_style
_flatten_style(style) == IF style = "None" THEN "" ELSE style

_markdown_template(html, style) ==
    <<(<<"template", style>>)>> \o html \o <<(<<"/template", "script">>)>>

MarkdownItKeyNoFlag(html, unsafe_solara_execute, highlight) ==
    sha256(html \o ReprList(highlight))
MarkdownItKey(html, unsafe_solara_execute, highlight) ==
    sha256(html \o StrBool(unsafe_solara_execute) \o ReprList(highlight))

MarkdownKey(html, unsafe_solara_execute) ==
    sha256(html \o StrBool(unsafe_solara_execute))

\* markdown-it's fence rule wraps what the highlight callback returns
MarkdownItFence(lang, highlighted) ==
    <<(<<"pre-code", lang>>)>> \o highlighted \o <<(<<"/pre-code", lang>>)>>

\* pymdownx.highlight renders a fence that is no custom fence itself
PymdownxFence(lang, src) == <<(<<"pymdownx", lang, src>>)>>

\* ---- the python-markdown converter, kept between renders ---------------
\* Markdown line 217 calls md.convert on the memoized converter and never
\* md.reset(): the converter's htmlStash keeps every block stored in it.
\* A rendered fence is stored in the stash and a placeholder numbered by
\* the stash counter is left in the text; the raw-html postprocessor puts
\* the stored block back where its placeholder stands.
HtmlStashStore(stash, block) == Append(stash, block)

Placeholder(stash) == <<(<<"placeholder", Len(stash) + 1>>)>>

ReplayWholeStash(frags, stash) == stash
RawHtmlPostprocessor(frags, stash) ==
    [i \in 1..Len(frags) |->
        IF frags[i][1][1] = "placeholder" THEN stash[frags[i][1][2]] ELSE frags[i]]

\* ---- ExceptionGuard ----------------------------------------------------
\* solara.use_exception(): the exception a child raised, until cleared
ClearingGuard(exception) ==
    [view |-> IF exception THEN "error" ELSE "children", clear |-> exception]
ExceptionGuard(exception) ==
    [view |-> IF exception THEN "error" ELSE "children", clear |-> FALSE]

\* solara.use_memo(make_markdown_object, dependencies=[unsafe_solara_execute])
\* slot is the stored <<dependencies, value>>; the value is the converter,
\* known by the flag its highlight closure captured.
\* and by its htmlStash, empty in a new converter.
StaleMemo(slot, unsafe_solara_execute) ==
    IF slot.set THEN slot
    ELSE [set |-> TRUE, deps |-> unsafe_solara_execute,
          closure |-> unsafe_solara_execute, stash |-> << >>]
use_memo(slot, unsafe_solara_execute) ==
    IF slot.set /\ slot.deps = unsafe_solara_execute THEN slot
    ELSE [set |-> TRUE, deps |-> unsafe_solara_execute,
          closure |-> unsafe_solara_execute, stash |-> << >>]

Kinds == {"Markdown", "MarkdownIt"}

NoMemo == [set |-> FALSE, deps |-> FALSE, closure |-> FALSE, stash |-> << >>]

Idle == [pc |-> "idle", n |-> 0, flag |-> FALSE, highlight |-> << >>,
         style |-> "", closure |-> FALSE, i |-> 0, frags |-> << >>,
         html |-> << >>, scope |-> {}, seen |-> {}, others |-> {},
         logs |-> 0]

InitWith(docs, kinds, active, budget) ==
    /\ kind \in kinds
    /\ md_text \in [Comps -> docs]
    /\ \A c \in Comps \ active : kind[c] = "Markdown" /\ md_text[c] = md_text[1]
    /\ passesLeft = [c \in Comps |-> IF c \in active THEN budget ELSE 0]
    /\ memo = [c \in Comps |-> NoMemo]
    /\ cur = [c \in Comps |-> Idle]
    /\ nextId = 1
    /\ containers = {}
    /\ guard = << >>
    /\ shown = [c \in Comps |-> 0]
    /\ leaked = {}
    /\ execs = {}
    /\ passes = {}

\* one component instance, re-rendered
Init == InitWith(Docs, [Comps -> Kinds], {1}, MaxPasses)

\* a Markdown and a MarkdownIt instance, each rendered once, whose passes
\* interleave
InitConc == InitWith(LiveDocs, {[c \in Comps |-> IF c = 1 THEN "Markdown" ELSE "MarkdownIt"]},
                     Comps, 1)

PassesOf(c) == {p \in passes : p.comp = c}

Restrict(f, S) == [x \in S |-> f[x]]

\* ---- a render pass -----------------------------------------------------
\* the component function is called: Markdown lines 178-217 up to the start
\* of md.convert, MarkdownIt lines 140-159 up to the start of md.render
StartPassWith(c, flags, highlights, styles) ==
    /\ cur[c].pc = "idle"
    /\ passesLeft[c] > 0
    /\ \E unsafe_solara_execute \in flags, highlight \in highlights, style \in styles :
          IF kind[c] = "Markdown"
          THEN LET md == use_memo(memo[c], unsafe_solara_execute)
               IN  /\ highlight = << >>
                   /\ memo' = [memo EXCEPT ![c] = md]
                   /\ cur' = [cur EXCEPT ![c] =
                          [Idle EXCEPT !.pc = "fence", !.n = Cardinality(PassesOf(c)) + 1,
                                       !.flag = unsafe_solara_execute,
                                       !.style = _flatten_style(style),
                                       !.closure = md.closure, !.i = 1]]
          ELSE /\ style = "None"
               /\ memo' = memo
               /\ cur' = [cur EXCEPT ![c] =
                      [Idle EXCEPT !.pc = "fence", !.n = Cardinality(PassesOf(c)) + 1,
                                   !.flag = unsafe_solara_execute,
                                   !.highlight = highlight,
                                   !.closure = unsafe_solara_execute, !.i = 1]]
    /\ passesLeft' = [passesLeft EXCEPT ![c] = @ - 1]
    /\ UNCHANGED <<kind, md_text, nextId, containers, guard, shown, leaked, execs, passes>>

StartPass(c) == StartPassWith(c, BOOLEAN, Highlights, StyleInputs)

\* a pass with execution enabled and the default highlight and style
StartLivePass(c) == StartPassWith(c, {TRUE}, {<< >>}, {"None"})

\* the fragment of fence i is known: go on with the next fence
Advance(x, doc, frag, logged) ==
    [x EXCEPT !.pc = IF x.i = Len(doc) THEN "wrap" ELSE "fence",
              !.i = x.i + 1,
              !.frags = Append(x.frags, frag),
              !.html = << >>, !.scope = {}, !.seen = {}, !.others = {},
              !.logs = x.logs + logged]

\* the engine places the fragment of the current fence: python-markdown
\* through the stash of the converter, markdown-it directly
Place(c, frag, logged) ==
    IF kind[c] = "Markdown"
    THEN /\ memo' = [memo EXCEPT ![c].stash = HtmlStashStore(@, frag)]
         /\ cur' = [cur EXCEPT ![c] =
                Advance(@, md_text[c], Placeholder(memo[c].stash), logged)]
    ELSE /\ memo' = memo
         /\ cur' = [cur EXCEPT ![c] = Advance(@, md_text[c], frag, logged)]

\* what a fence handler's result becomes in the document
FenceHtml(k, lang, highlighted) ==
    IF k = "MarkdownIt" THEN MarkdownItFence(lang, highlighted) ELSE highlighted

\* Markdown.make_markdown_object.highlight catches Exception, logs it and
\* returns repr(e); MarkdownIt.highlight_code catches nothing
Catches(k, e) == k = "Markdown" /\ IsException(e)

PassRecord(c, x, outcome, err, html, key, template) ==
    [comp |-> c, n |-> x.n, flag |-> x.flag, highlight |-> x.highlight,
     style |-> x.style, outcome |-> outcome, err |-> err,
     frags |-> IF outcome = "ok" THEN x.frags ELSE << >>,
     html |-> html, key |-> key, template |-> template, logs |-> x.logs]

\* exception e leaves the fence handler of the pass of c
Raise(c, e) ==
    IF Catches(kind[c], e)
    THEN /\ Place(c, <<(<<"repr", e>>)>>, 1)
         /\ UNCHANGED <<passes, guard>>
    ELSE /\ cur' = [cur EXCEPT ![c] = Idle]
         /\ memo' = memo
         /\ passes' = passes \cup
                {PassRecord(c, cur[c], "raised", e, << >>, << >>, << >>)}
         /\ guard' = Restrict(guard, {id \in DOMAIN guard :
                                         ~(guard[id].comp = c /\ guard[id].n = cur[c].n)})

ExecRecord(c, x, err, id) ==
    [comp |-> c, n |-> x.n, i |-> x.i, src |-> md_text[c][x.i].src,
     seen |-> x.seen, others |-> x.others, scope |-> x.scope,
     err |-> err, id |-> id]

\* the engine reaches fence i and calls its handler: _highlight up to its
\* return, its raise, or its call of _run_solara
FenceStep(c) ==
    /\ cur[c].pc = "fence"
    /\ LET x == cur[c]
           f == md_text[c][x.i]
       IN  IF kind[c] = "Markdown" /\ f.lang # "solara"
           THEN /\ Place(c, PymdownxFence(f.lang, f.src), 0)
                /\ UNCHANGED <<passes, guard>>
           ELSE LET r == _highlight(f.src, f.lang, x.closure)
                IN  CASE r.do = "raise" -> Raise(c, "ClassNotFound")
                      [] r.do = "run" ->
                            /\ cur' = [cur EXCEPT ![c] = [x EXCEPT !.pc = "exec", !.html = r.html]]
                            /\ UNCHANGED <<passes, guard, memo>>
                      [] r.do = "return" ->
                            /\ Place(c, FenceHtml(kind[c], f.lang, r.html), 0)
                            /\ UNCHANGED <<passes, guard>>
    /\ UNCHANGED <<kind, md_text, passesLeft, nextId, containers, shown, leaked, execs>>

\* _run_solara lines 38-40: compile, a new local_scope, exec
RunExec(c) ==
    /\ cur[c].pc = "exec"
    /\ LET x == cur[c]
           src == md_text[c][x.i].src
           local_scope == NewLocalScope(leaked)
           y == [x EXCEPT !.seen = local_scope, !.others = leaked,
                          !.scope = Exec(local_scope, src)]
       IN  /\ leaked' = leaked \cup Exec({}, src)
           /\ IF ExecFault(src) # "none"
              THEN /\ execs' = execs \cup {ExecRecord(c, y, ExecFault(src), 0)}
                   /\ Raise(c, ExecFault(src))
              ELSE /\ cur' = [cur EXCEPT ![c] = [y EXCEPT !.pc = "mount"]]
                   /\ UNCHANGED <<execs, passes, guard, memo>>
    /\ UNCHANGED <<kind, md_text, passesLeft, nextId, containers, shown>>

\* _run_solara lines 41-56: the entry point, the box, solara.render, the tag
RunMount(c) ==
    /\ cur[c].pc = "mount"
    /\ LET x == cur[c]
           f == md_text[c][x.i]
       IN  IF "app" \in x.scope \/ "Page" \in x.scope
           THEN LET widget_id == NewBox(nextId)
                    page == "app" \notin x.scope
                IN  /\ nextId' = nextId + 1
                    /\ containers' = containers \cup {widget_id}
                    /\ guard' = IF page
                                THEN [id \in DOMAIN guard \cup {widget_id} |->
                                        IF id = widget_id
                                        THEN [exception |-> FALSE,
                                              view |-> ExceptionGuard(FALSE).view,
                                              comp |-> c, n |-> x.n]
                                        ELSE guard[id]]
                                ELSE guard
                    /\ execs' = execs \cup {ExecRecord(c, x, "none", widget_id)}
                    /\ Place(c, FenceHtml(kind[c], f.lang,
                                           HighlightWithWidget(x.html, WidgetHtml(widget_id))), 0)
                    /\ UNCHANGED passes
           ELSE /\ execs' = execs \cup {ExecRecord(c, x, "NameError", 0)}
                /\ Raise(c, "NameError")
                /\ UNCHANGED <<nextId, containers>>
    /\ UNCHANGED <<kind, md_text, passesLeft, shown, leaked>>

\* the key and the template: Markdown lines 220-221, MarkdownIt lines 160-161
FinishPass(c) ==
    /\ cur[c].pc = "wrap"
    /\ LET frags == IF kind[c] = "Markdown"
                    THEN RawHtmlPostprocessor(cur[c].frags, memo[c].stash)
                    ELSE cur[c].frags
           x == [cur[c] EXCEPT !.frags = frags]
           html == Flatten(frags)
           hash == IF kind[c] = "Markdown"
                   THEN MarkdownKey(html, x.flag)
                   ELSE MarkdownItKey(html, x.flag, x.highlight)
           template == IF kind[c] = "Markdown"
                       THEN _markdown_template(html, x.style)
                       ELSE _markdown_template(html, "")
       IN  /\ passes' = passes \cup {PassRecord(c, x, "ok", "none", html, hash, template)}
           /\ shown' = [shown EXCEPT ![c] = x.n]
           /\ guard' = Restrict(guard, {id \in DOMAIN guard :
                                           guard[id].comp = c => guard[id].n = x.n})
    /\ cur' = [cur EXCEPT ![c] = Idle]
    /\ UNCHANGED <<kind, md_text, passesLeft, memo, nextId, containers, leaked, execs>>

\* ---- the error boundary of a displayed Page ----------------------------
\* a child of the guard raises while it renders or updates: the exception
\* handler installed by use_exception stores it
ChildRaises(id) ==
    /\ id \in DOMAIN guard
    /\ shown[guard[id].comp] = guard[id].n
    /\ ~guard[id].exception
    /\ guard' = [guard EXCEPT ![id].exception = TRUE]
    /\ UNCHANGED <<kind, md_text, passesLeft, memo, cur, nextId, containers,
                   shown, leaked, execs, passes>>

\* the stored exception changed: ExceptionGuard renders again
GuardRender(id) ==
    /\ id \in DOMAIN guard
    /\ LET r == ExceptionGuard(guard[id].exception)
       IN  /\ r.view # guard[id].view
           /\ guard' = [guard EXCEPT ![id].view = r.view,
                                     ![id].exception = IF r.clear THEN FALSE ELSE @]
    /\ UNCHANGED <<kind, md_text, passesLeft, memo, cur, nextId, containers,
                   shown, leaked, execs, passes>>

Next ==
    \/ \E c \in Comps : StartPass(c)
    \/ \E c \in Comps : FenceStep(c)
    \/ \E c \in Comps : RunExec(c)
    \/ \E c \in Comps : RunMount(c)
    \/ \E c \in Comps : FinishPass(c)
    \/ \E id \in DOMAIN guard : ChildRaises(id)
    \/ \E id \in DOMAIN guard : GuardRender(id)

Spec == Init /\ [][Next]_vars

NextConc ==
    \/ \E c \in Comps : StartLivePass(c)
    \/ \E c \in Comps : FenceStep(c)
    \/ \E c \in Comps : RunExec(c)
    \/ \E c \in Comps : RunMount(c)
    \/ \E c \in Comps : FinishPass(c)

SpecConc == InitConc /\ [][NextConc]_vars

\* ---- vocabulary of the properties --------------------------------------
OkPasses == {p \in passes : p.outcome = "ok"}

DocOf(p) == md_text[p.comp]

LiveIdx(doc) == {i \in 1..Len(doc) : doc[i].lang = "solara"}

ExecsOf(p) == {e \in execs : e.comp = p.comp /\ e.n = p.n}

Mounted(p) == {e \in ExecsOf(p) : e.err = "none"}

WidgetIdx(html) == {i \in 1..Len(html) : html[i][1] = "jupyter-widget"}

EntryPoint(src) == Binds(src) \cap {"app", "Page"} # {}

\* tokens a, b stand next to each other in html, a first
Adjacent(html, a, b) ==
    \E i \in 1..(Len(html) - 1) : html[i] = a /\ html[i + 1] = b

Source(f) == PygmentsHighlight(f.src, "python")

FailedExecs(p) == {e \in ExecsOf(p) : e.err # "none"}

\* ---- C1 ----------------------------------------------------------------
\* C1: in every render pass whose unsafe_solara_execute flag is false, also
\* one that follows passes of the same instance with the flag true, no call
\* of _run_solara is made or in progress, and in the output every live fence
\* is its highlighted source followed by html_no_execute_enabled, with no
\* widget reference anywhere.
C1_DisabledNeverExecutes ==
    /\ \A c \in Comps :
          cur[c].pc # "idle" /\ ~cur[c].flag => cur[c].pc \notin {"exec", "mount"}
    /\ \A p \in passes :
          ~p.flag =>
             /\ ExecsOf(p) = {}
             /\ p.outcome = "ok" =>
                   /\ WidgetIdx(p.html) = {}
                   /\ \A i \in LiveIdx(DocOf(p)) :
                         Adjacent(p.frags[i], Source(DocOf(p)[i]), html_no_execute_enabled)

C1_Witness ==
    \E p \in OkPasses, q \in passes :
        /\ p.comp = q.comp /\ kind[p.comp] = "Markdown"
        /\ q.n < p.n /\ q.flag /\ ~p.flag
        /\ Mounted(q) # {}
        /\ LiveIdx(DocOf(p)) # {}

\* ---- C2 ----------------------------------------------------------------
\* C2: whenever a live fence fails in a pass with execution
\* enabled, the pass raises, in Markdown as in MarkdownIt, and no fragment
\* stands in for the failing fence.
C2_FailurePropagatesEverywhere ==
    \A p \in passes : FailedExecs(p) # {} => p.outcome = "raised"

\* ---- C3 ----------------------------------------------------------------
\* C3: in the output of every pass the widget-reference tags are as many as
\* the live fences executed in that pass; a live fence that defines app or
\* Page, in a pass with execution enabled, has exactly one tag, right after
\* its highlighted source, naming the box that this execution created and
\* mounted; a document without live fences has no tag.
C3_OneWidgetPerExecutedFence ==
    \A p \in OkPasses :
        LET doc == DocOf(p)
        IN  /\ Cardinality(WidgetIdx(p.html)) = Cardinality(ExecsOf(p))
            /\ \A i \in LiveIdx(doc) :
                  p.flag /\ EntryPoint(doc[i].src) /\ ExecFault(doc[i].src) = "none" =>
                     /\ Cardinality(WidgetIdx(p.frags[i])) = 1
                     /\ \E e \in Mounted(p) :
                           /\ e.i = i
                           /\ e.id \in containers
                           /\ Adjacent(p.frags[i], Source(doc[i]), WidgetHtml(e.id))
            /\ LiveIdx(doc) = {} => WidgetIdx(p.html) = {}

\* ---- C4 ----------------------------------------------------------------
\* C4 as stated: of two passes of the same document with execution enabled
\* and a live fence, the later one has executed fence code, has created a
\* box with an id no earlier pass used, and its key differs from the
\* earlier key.
C4_EveryLivePassHasNewKey ==
    \A p \in passes, q \in passes :
        /\ p.comp = q.comp /\ p.n < q.n /\ p.flag /\ q.flag
        /\ LiveIdx(DocOf(q)) # {}
        => /\ ExecsOf(q) # {}
           /\ \E e \in Mounted(q) : \A d \in Mounted(p) : d.id # e.id
           /\ q.key # p.key

\* C4 amended: every pass with execution enabled executes again each live
\* fence it reaches; each execution that runs to its end creates a box whose
\* id no other execution has; and a completed pass in which at least one
\* live fence ran to its end has a key different from the key of every
\* earlier pass with execution enabled.
C4_NewKeyWhenAFenceMounts ==
    /\ \A q \in OkPasses :
          q.flag => {e.i : e \in ExecsOf(q)} = LiveIdx(DocOf(q))
    /\ \A d \in execs, e \in execs :
          d.err = "none" /\ e.err = "none" /\ d # e => d.id # e.id
    /\ \A p \in OkPasses, q \in OkPasses :
          /\ p.comp = q.comp /\ p.n < q.n /\ p.flag /\ q.flag
          /\ Mounted(q) # {}
          => q.key # p.key

C4_Witness ==
    \E p \in OkPasses, q \in OkPasses :
        /\ p.comp = q.comp /\ p.n < q.n /\ p.flag /\ q.flag
        /\ Mounted(p) # {} /\ Mounted(q) # {}
        /\ FailedExecs(q) # {}

\* ---- C5 ----------------------------------------------------------------
\* C5: the key is fixed by (html, flag, highlight-line spec) and fixes them:
\* two passes have the same key exactly when they agree on all three, so
\* passes with the same HTML that differ in the flag or in the highlight
\* spec have different keys.
C5_KeyCoversConfiguration ==
    \A p \in OkPasses, q \in OkPasses :
        p.comp = q.comp =>
           (p.key = q.key <=>
               p.html = q.html /\ p.flag = q.flag /\ p.highlight = q.highlight)

C5_Witness ==
    \E p \in OkPasses, q \in OkPasses :
        /\ kind[p.comp] = "MarkdownIt"
        /\ p.html = q.html
        /\ p.flag /\ ~q.flag
        /\ p.highlight = <<1, 2>> /\ q.highlight = <<1, 2>>
        /\ p.key # q.key

\* ---- C6 ----------------------------------------------------------------
\* C6: two passes that emit different template markup have different keys.
C6_DifferentTemplateDifferentKey ==
    \A p \in OkPasses, q \in OkPasses :
        p.template # q.template => p.key # q.key

\* ---- C7 ----------------------------------------------------------------
\* C7: passes of the same document without live fences and with the same
\* configuration end the same way, with the same HTML and the same key,
\* however often the instance is rendered and whatever the memoized
\* converter, never reset, has kept from the earlier passes.
C7_Idempotent ==
    \A p \in passes, q \in passes :
        /\ p.comp = q.comp
        /\ LiveIdx(DocOf(p)) = {}
        /\ p.flag = q.flag /\ p.highlight = q.highlight /\ p.style = q.style
        => /\ p.outcome = q.outcome
           /\ p.html = q.html
           /\ p.key = q.key
           /\ p.template = q.template

C7_Witness ==
    \E p \in OkPasses, q \in OkPasses :
        /\ p.comp = q.comp /\ p.n # q.n
        /\ kind[p.comp] = "Markdown" /\ memo[p.comp].set
        /\ Len(memo[p.comp].stash) = 2 * Len(DocOf(p))
        /\ LiveIdx(DocOf(p)) = {}
        /\ p.flag = q.flag /\ p.highlight = q.highlight /\ p.style = q.style
        /\ p.key = q.key

\* ---- C8 ----------------------------------------------------------------
\* C8: a fence with an unknown language tag never makes a pass raise: every
\* pass over a document whose only irregularity is such a fence completes.
C8_UnknownLanguageNeverFails ==
    \A p \in passes :
        LiveIdx(DocOf(p)) = {} => p.outcome = "ok"

\* ---- C9 ----------------------------------------------------------------
\* C9: a guard starts Clean showing its children; a stored exception is
\* never cleared for the same handle, the error view is shown only with a
\* stored exception, and a handle that disappears is replaced only by
\* handles that start Clean.
C9_GuardStep ==
    /\ \A id \in DOMAIN guard' \ DOMAIN guard :
          ~guard'[id].exception /\ guard'[id].view = "children"
    /\ \A id \in DOMAIN guard \cap DOMAIN guard' :
          /\ guard[id].exception => guard'[id].exception
          /\ guard'[id].view = "error" => guard'[id].exception
          /\ guard[id].view = "error" => guard'[id].view = "error"

C9_FaultedStaysFaulted == [][C9_GuardStep]_vars

C9_Witness ==
    \E id \in DOMAIN guard : guard[id].exception /\ guard[id].view = "error"

\* ---- C10 ---------------------------------------------------------------
\* C10: whatever the interleaving, every call of _run_solara starts from an
\* empty scope and ends with exactly the names its own program bound (and
\* the "__builtins__" entry that exec adds), so a
\* program with no entry point fails whatever other programs bound, and no
\* two calls return the same widget id.
C10_InvocationsIsolated ==
    /\ \A c \in Comps :
          cur[c].pc = "mount" =>
             cur[c].seen = {} /\ cur[c].scope = Exec({}, md_text[c][cur[c].i].src)
    /\ \A e \in execs :
          /\ e.seen = {}
          /\ e.scope = Exec({}, e.src)
          /\ ~EntryPoint(e.src) => e.err = "NameError" /\ e.id = 0
          /\ EntryPoint(e.src) => e.err = "none" /\ e.id \in containers
    /\ \A d \in execs, e \in execs :
          d.err = "none" /\ e.err = "none" /\ d # e => d.id # e.id

C10_Witness ==
    /\ \E e \in execs : "app" \in e.others /\ e.err = "NameError"
    /\ \E c \in Comps, e \in execs :
          /\ e.comp # c /\ e.err = "none"
          /\ cur[c].pc = "mount" /\ cur[c].others = {}
          /\ "app" \in leaked
          /\ ~EntryPoint(md_text[c][cur[c].i].src)

====
